---- MODULE Spec2Model ----
(***************************************************************************)
(* Model of lib/passport-weibo/strategy.js: the Strategy constructor and   *)
(* Strategy.prototype.userProfile, with the three chained oauth2.get       *)
(* callbacks as separate steps.                                            *)
(***************************************************************************)
EXTENDS Integers, Sequences, FiniteSets, TLC

VARIABLES
  supplied,     \* the `options` argument the caller handed to Strategy()
  strategy,     \* the constructed strategy: [name, options], or Unconstructed
  pc,           \* per invocation: position in the callback chain
  accessToken,  \* per invocation: the accessToken argument of userProfile
  body,         \* closure variable `body` of the user-show callback
  json,         \* closure variable `json` of the user-show callback
  gets,         \* per invocation: the oauth2.get calls issued, in order
  resp,         \* per invocation: the (err, body) pairs the callbacks received
  doneCalls,    \* per invocation: the calls made to `done`, in order
  uncaught      \* per invocation: exception that escaped a callback, or Undefined

vars == <<supplied, strategy, pc, accessToken, body, json, gets, resp, doneCalls, uncaught>>

----------------------------------------------------------------------------
(* Bounds *)

\* number of userProfile invocations that may be in flight on one strategy
NumInvocations == 2

Invocations == 1..NumInvocations

----------------------------------------------------------------------------
(* JavaScript values *)

Undefined == [t |-> "undefined"]
Null == [t |-> "null"]
Str(s) == [t |-> "string", s |-> s]
Num(n) == [t |-> "number", n |-> n]
Obj(f) == [t |-> "object", o |-> f]
EmptyObject == Obj([k \in {} |-> Null])
Arr(items) == [t |-> "array", items |-> items]

\* a string holding a response body, kept as its sequence of JSON lexemes
Text(toks) == [t |-> "string", chars |-> toks]

JSError(name) == [t |-> "error", name |-> name]
SyntaxError == JSError("SyntaxError")
TypeError == JSError("TypeError")

\* completion of an expression: a value, or a thrown exception
Return(v) == [ok |-> TRUE, val |-> v]
Throw(e) == [ok |-> FALSE, exc |-> e]

\* ToBoolean, as the || operator applies it
Truthy(v) ==
  CASE v.t = "undefined" -> FALSE
    [] v.t = "null" -> FALSE
    [] v.t = "string" /\ "s" \in DOMAIN v -> v.s # ""
    [] v.t = "number" -> v.n # 0
    [] OTHER -> TRUE

\* ToString, as the + operator applies it to its right operand
ToStr(v) ==
  CASE v.t = "undefined" -> "undefined"
    [] v.t = "null" -> "null"
    [] v.t = "string" /\ "s" \in DOMAIN v -> v.s
    [] v.t = "number" -> ToString(v.n)
    [] OTHER -> "[object Object]"

\* property read v.k
Get(v, k) ==
  IF v.t \in {"undefined", "null"} THEN Throw(TypeError)
  ELSE IF v.t = "object" /\ k \in DOMAIN v.o THEN Return(v.o[k])
  ELSE Return(Undefined)

\* property write v.k = x on an object
Put(v, k, x) == Obj([f \in DOMAIN v.o \cup {k} |-> IF f = k THEN x ELSE v.o[f]])

----------------------------------------------------------------------------
(* JSON.parse over a body's lexemes *)

LB == [k |-> "{"]
RB == [k |-> "}"]
COLON == [k |-> ":"]
COMMA == [k |-> ","]
S(s) == [k |-> "string", s |-> s]
N(n) == [k |-> "number", n |-> n]
NULL == [k |-> "null"]

ParseFail == [ok |-> FALSE]
ParseOk(v, next) == [ok |-> TRUE, val |-> v, next |-> next]

RECURSIVE ParseValue(_, _), ParseMembers(_, _, _)

\* members of an object after "{" or ",": string ":" value, then "," or "}"
ParseMembers(toks, i, acc) ==
  IF i + 1 > Len(toks) \/ toks[i].k # "string" \/ toks[i + 1].k # ":" THEN ParseFail
  ELSE LET v == ParseValue(toks, i + 2) IN
    IF ~v.ok \/ v.next > Len(toks) THEN ParseFail
    ELSE LET obj == Put(acc, toks[i].s, v.val) IN
      CASE toks[v.next].k = "}" -> ParseOk(obj, v.next + 1)
        [] toks[v.next].k = "," -> ParseMembers(toks, v.next + 1, obj)
        [] OTHER -> ParseFail

ParseValue(toks, i) ==
  IF i > Len(toks) THEN ParseFail
  ELSE CASE toks[i].k = "null" -> ParseOk(Null, i + 1)
         [] toks[i].k = "string" -> ParseOk(Str(toks[i].s), i + 1)
         [] toks[i].k = "number" -> ParseOk(Num(toks[i].n), i + 1)
         [] toks[i].k = "{" ->
              IF i + 1 <= Len(toks) /\ toks[i + 1].k = "}"
              THEN ParseOk(EmptyObject, i + 2)
              ELSE ParseMembers(toks, i + 1, EmptyObject)
         [] OTHER -> ParseFail

\* JSON.parse(text): the value, or a thrown SyntaxError; JSON.parse(undefined)
\* parses the string "undefined", which is no JSON text
JSON_parse(text) ==
  IF text.t # "string" THEN Throw(SyntaxError)
  ELSE LET r == ParseValue(text.chars, 1) IN
    IF r.ok /\ r.next = Len(text.chars) + 1 THEN Return(r.val) ELSE Throw(SyntaxError)

----------------------------------------------------------------------------
(* Strategy construction *)

Unconstructed == [name |-> "", options |-> Undefined]

DefaultAuthorizationURL == Str("https://api.weibo.com/oauth2/authorize")
DefaultTokenURL == Str("https://api.weibo.com/oauth2/access_token")
DefaultScopeSeparator == Str(",")

\* faulty variant: a default applied only to an absent value (a ?? b)
OrElseNullish(a, b) == IF a.t \in {"undefined", "null"} THEN b ELSE a

\* a || b
OrElse(a, b) == IF Truthy(a) THEN a ELSE b

\* options.k = options.k || d
ApplyDefault(options, k, d) == Put(options, k, OrElse(Get(options, k).val, d))

\* function Strategy(options, verify)
StrategyOptions(options) ==
  LET o0 == OrElse(options, EmptyObject)
      o1 == ApplyDefault(o0, "authorizationURL", DefaultAuthorizationURL)
      o2 == ApplyDefault(o1, "tokenURL", DefaultTokenURL)
  IN ApplyDefault(o2, "scopeSeparator", DefaultScopeSeparator)

NewStrategy(options) == [name |-> "weibo", options |-> StrategyOptions(options)]

----------------------------------------------------------------------------
(* Inputs: what callers supply and what the provider answers *)

OptionKeys == {"authorizationURL", "tokenURL", "scopeSeparator"}
OptionValues == {Str(""), Str(" "), Str("https://example.net/oauth2")}
Credentials == [clientID |-> Str("app key"), clientSecret |-> Str("app secret")]

\* no options at all, or the credentials plus any subset of the three options
SuppliedOptions ==
  {Undefined} \cup
  {Obj([k \in DOMAIN Credentials \cup DOMAIN f |->
          IF k \in DOMAIN f THEN f[k] ELSE Credentials[k]]) :
     f \in UNION {[K -> OptionValues] : K \in SUBSET OptionKeys}}

\* the options of the strategy the userProfile runs are checked on: one override
\* kept, one falsy value and one absent option defaulted
RunOptions ==
  {Obj([clientID |-> Str("app key"), clientSecret |-> Str("app secret"),
        authorizationURL |-> Str("https://example.net/oauth2"),
        scopeSeparator |-> Str("")])}

TokenOf(i) == Str("T" \o ToString(i))

\* the provider's uid for the owner of invocation i's token: a JSON string for
\* the first, a JSON number for the others
UidLexeme(i) == IF i = 1 THEN S("123") ELSE N(454 + i)

\* bodies the UID endpoint may answer invocation i with: its owner's uid, the
\* literal null, a truncated document
UidBodies(i) ==
  {Text(<<LB, S("uid"), COLON, UidLexeme(i), RB>>),
   Text(<<NULL>>),
   Text(<<LB, S("uid"), COLON>>)}

ShowBodies ==
  {Text(<<LB, S("id"), COLON, S("123"), COMMA, S("name"), COLON, S("alice"), COMMA,
          S("screen_name"), COLON, S("Alice A"), COMMA, S("gender"), COLON, S("f"), COMMA,
          S("profile_url"), COLON, S("alice"), COMMA,
          S("profile_image_url"), COLON, S("http://x/p.jpg"), RB>>),
   Text(<<LB, S("id"), COLON, N(456), COMMA, S("name"), COLON, S("bob"), COMMA,
          S("screen_name"), COLON, S("Bob B"), COMMA,
          S("profile_url"), COLON, S("u/456"), COMMA,
          S("profile_image_url"), COLON, NULL, RB>>),
   Text(<<NULL>>),
   Text(<<LB, S("id"), COLON, S("123"), COMMA>>)}

EmailBodies ==
  {Text(<<LB, S("email"), COLON, S("a@x.com"), RB>>),
   Text(<<LB, S("email"), COLON, S("b@x.com"), RB>>),
   Text(<<NULL>>),
   Text(<<LB, S("email")>>)}

TransportError == Obj([statusCode |-> Str("401"), data |-> Str("expired_token")])

\* what oauth2.get hands its callback: (null, body) on success, (err) alone on
\* a transport or provider error, which leaves the body argument undefined
Responses(bodies) ==
  {[err |-> Null, body |-> b] : b \in bodies} \cup {[err |-> TransportError, body |-> Undefined]}

\* the exception a caller's `done` raises when it throws
DoneThrown == [t |-> "error", name |-> "Error"]

----------------------------------------------------------------------------
(* userProfile *)

UidUrl == Str("https://api.weibo.com/2/account/get_uid.json")
EmailUrl == Str("https://api.weibo.com/2/account/profile/email.json")

\* faulty variant: the user-show URL without the uid
ShowUrlNoUid(uid) == Str("https://api.weibo.com/2/users/show.json?uid=")

\* 'https://api.weibo.com/2/users/show.json?uid=' + uid.uid
ShowUrl(uid) == Str("https://api.weibo.com/2/users/show.json?uid=" \o ToStr(uid))

\* new InternalOAuthError('failed to fetch user profile', err)
InternalOAuthError(message, err) ==
  [t |-> "error", name |-> "InternalOAuthError", message |-> message, oauthError |-> err]

\* faulty variant: the transport error handed on without the wrapper
UidErrorUnwrapped(err) == err

UidError(err) == InternalOAuthError("failed to fetch user profile", err)

\* faulty variant: `json` declared without var, one binding shared by every invocation
jsonScopeShared(i) == 1

\* the binding of `var json` an invocation's callbacks write and read
jsonScope(i) == i

Request(url, token) == [url |-> url, accessToken |-> token]
DoneCall(err, profile) == [err |-> err, profile |-> profile]

\* faulty variant: the profile path without the site prefix
ProfileUrlBare(j) == Get(j, "profile_url").val

\* 'http://weibo.com/' + json.profile_url
ProfileUrl(j) == Str("http://weibo.com/" \o ToStr(Get(j, "profile_url").val))

\* faulty variant: _raw taken from the email callback's body
RawBodyEmail(b, email) == email

\* _raw: body, with `body` the user-show callback's and `email` the email callback's
RawBody(b, email) == b

\* the object literal of the email callback, evaluated field by field
BuildProfile(j, b, email) ==
  LET id == Get(j, "id")
      parsed == JSON_parse(email)
      mail == IF parsed.ok THEN Get(parsed.val, "email") ELSE parsed
  IN IF ~id.ok THEN id
     ELSE IF ~mail.ok THEN mail
     ELSE Return(Obj(
       [provider |-> Str("weibo"),
        id |-> id.val,
        username |-> Get(j, "name").val,
        displayName |-> Get(j, "screen_name").val,
        name |-> EmptyObject,
        gender |-> Get(j, "gender").val,
        profileUrl |-> ProfileUrl(j),
        emails |-> Arr(<<Obj([value |-> mail.val])>>),
        photos |-> Arr(<<Obj([value |-> Get(j, "profile_image_url").val])>>),
        _raw |-> RawBody(b, email),
        _json |-> j]))

Init ==
  /\ supplied \in RunOptions
  /\ strategy = NewStrategy(supplied)
  /\ pc = [i \in Invocations |-> "idle"]
  /\ accessToken = [i \in Invocations |-> Undefined]
  /\ body = [i \in Invocations |-> Undefined]
  /\ json = [i \in Invocations |-> Undefined]
  /\ gets = [i \in Invocations |-> <<>>]
  /\ resp = [i \in Invocations |-> <<>>]
  /\ doneCalls = [i \in Invocations |-> <<>>]
  /\ uncaught = [i \in Invocations |-> Undefined]

\* Strategy.prototype.userProfile = function(accessToken, done): issues the UID GET
UserProfile(i) ==
  /\ pc[i] = "idle"
  /\ accessToken' = [accessToken EXCEPT ![i] = TokenOf(i)]
  /\ gets' = [gets EXCEPT ![i] = Append(@, Request(UidUrl, TokenOf(i)))]
  /\ pc' = [pc EXCEPT ![i] = "get_uid"]
  /\ UNCHANGED <<supplied, strategy, body, json, resp, doneCalls, uncaught>>

\* function (err, uid, res): callback of the UID GET
UidCallback(i, r, doneThrows) ==
  /\ pc[i] = "get_uid"
  /\ resp' = [resp EXCEPT ![i] = Append(@, r)]
  /\ IF Truthy(r.err)
     THEN /\ doneCalls' = [doneCalls EXCEPT ![i] = Append(@, DoneCall(UidError(r.err), Undefined))]
          /\ pc' = [pc EXCEPT ![i] = IF doneThrows THEN "threw" ELSE "returned"]
          /\ uncaught' = [uncaught EXCEPT ![i] = IF doneThrows THEN DoneThrown ELSE @]
          /\ UNCHANGED gets
     ELSE LET uid == JSON_parse(r.body)
              uidUid == IF uid.ok THEN Get(uid.val, "uid") ELSE uid
          IN IF ~uidUid.ok
             THEN /\ pc' = [pc EXCEPT ![i] = "threw"]
                  /\ uncaught' = [uncaught EXCEPT ![i] = uidUid.exc]
                  /\ UNCHANGED <<gets, doneCalls>>
             ELSE /\ gets' = [gets EXCEPT ![i] = Append(@, Request(ShowUrl(uidUid.val), accessToken[i]))]
                  /\ pc' = [pc EXCEPT ![i] = "get_show"]
                  /\ UNCHANGED <<doneCalls, uncaught>>
  /\ UNCHANGED <<supplied, strategy, accessToken, body, json>>

\* function (err, body, res): callback of the user-show GET; err is not read
ShowCallback(i, r) ==
  /\ pc[i] = "get_show"
  /\ resp' = [resp EXCEPT ![i] = Append(@, r)]
  /\ LET parsed == JSON_parse(r.body)
     IN IF ~parsed.ok
        THEN /\ pc' = [pc EXCEPT ![i] = "threw"]
             /\ uncaught' = [uncaught EXCEPT ![i] = parsed.exc]
             /\ UNCHANGED <<gets, body, json>>
        ELSE /\ body' = [body EXCEPT ![i] = r.body]
             /\ json' = [json EXCEPT ![jsonScope(i)] = parsed.val]
             /\ gets' = [gets EXCEPT ![i] = Append(@, Request(EmailUrl, accessToken[i]))]
             /\ pc' = [pc EXCEPT ![i] = "get_email"]
             /\ UNCHANGED uncaught
  /\ UNCHANGED <<supplied, strategy, accessToken, doneCalls>>

\* function(err, email, res): callback of the email GET; err is not read.
\* try { profile = {...}; done(null, profile) } catch(e) { done(e) }
EmailCallback(i, r, doneThrows, doneThrowsAgain) ==
  /\ pc[i] = "get_email"
  /\ resp' = [resp EXCEPT ![i] = Append(@, r)]
  /\ LET profile == BuildProfile(json[jsonScope(i)], body[i], r.body)
         first == IF profile.ok THEN DoneCall(Null, profile.val)
                  ELSE DoneCall(profile.exc, Undefined)
         caught == profile.ok /\ doneThrows
         calls == IF caught THEN <<first, DoneCall(DoneThrown, Undefined)>> ELSE <<first>>
         escapes == IF profile.ok THEN doneThrows /\ doneThrowsAgain ELSE doneThrows
     IN /\ doneCalls' = [doneCalls EXCEPT ![i] = @ \o calls]
        /\ pc' = [pc EXCEPT ![i] = IF escapes THEN "threw" ELSE "returned"]
        /\ uncaught' = [uncaught EXCEPT ![i] = IF escapes THEN DoneThrown ELSE @]
  /\ UNCHANGED <<supplied, strategy, accessToken, body, json, gets>>

Next ==
  \/ \E i \in Invocations : UserProfile(i)
  \/ \E i \in Invocations : \E r \in Responses(UidBodies(i)), t \in BOOLEAN :
       UidCallback(i, r, t)
  \/ \E i \in Invocations, r \in Responses(ShowBodies) : ShowCallback(i, r)
  \/ \E i \in Invocations, r \in Responses(EmailBodies), t1 \in BOOLEAN, t2 \in BOOLEAN :
       EmailCallback(i, r, t1, t2)

Spec == Init /\ [][Next]_vars

\* every issued GET eventually calls back
Callback(i) ==
  \/ \E r \in Responses(UidBodies(i)), t \in BOOLEAN : UidCallback(i, r, t)
  \/ \E r \in Responses(ShowBodies) : ShowCallback(i, r)
  \/ \E r \in Responses(EmailBodies), t1 \in BOOLEAN, t2 \in BOOLEAN :
       EmailCallback(i, r, t1, t2)

FairSpec == Spec /\ \A i \in Invocations : WF_vars(Callback(i))

----------------------------------------------------------------------------
(* Construction on its own: new Strategy(options, verify) *)

InitCtor ==
  /\ supplied \in SuppliedOptions
  /\ strategy = Unconstructed
  /\ pc = [i \in Invocations |-> "idle"]
  /\ accessToken = [i \in Invocations |-> Undefined]
  /\ body = [i \in Invocations |-> Undefined]
  /\ json = [i \in Invocations |-> Undefined]
  /\ gets = [i \in Invocations |-> <<>>]
  /\ resp = [i \in Invocations |-> <<>>]
  /\ doneCalls = [i \in Invocations |-> <<>>]
  /\ uncaught = [i \in Invocations |-> Undefined]

Construct ==
  /\ strategy = Unconstructed
  /\ strategy' = NewStrategy(supplied)
  /\ UNCHANGED <<supplied, pc, accessToken, body, json, gets, resp, doneCalls, uncaught>>

CtorSpec == InitCtor /\ [][Construct]_vars

----------------------------------------------------------------------------
(* Properties *)

\* the value of field k of a parsed JSON document, undefined when it has none
Field(v, k) == IF v.t = "object" /\ k \in DOMAIN v.o THEN v.o[k] ELSE Undefined

Parsed(r) == JSON_parse(r.body).val
Failed(r) == r.err # Null
WellFormed(r) == ~Failed(r) /\ JSON_parse(r.body).ok
WellFormedNonNull(r) == ~Failed(r) /\ LET p == JSON_parse(r.body) IN p.ok /\ p.val # Null

ProfileCalls(i) == {k \in 1..Len(doneCalls[i]) : doneCalls[i][k].profile # Undefined}
ErrorCalls(i) == {k \in 1..Len(doneCalls[i]) : doneCalls[i][k].err # Null}
Finished(i) == pc[i] \in {"returned", "threw"}

\* C1: when the UID GET reports an error, done is called with an
\* InternalOAuthError whose cause is that error, and the UID GET stays the only
\* GET the invocation issues.
C1_UidErrorWrapped ==
  \A i \in Invocations :
    (Len(resp[i]) >= 1 /\ Failed(resp[i][1])) =>
      /\ Len(doneCalls[i]) = 1
      /\ doneCalls[i][1].profile = Undefined
      /\ doneCalls[i][1].err.t = "error"
      /\ doneCalls[i][1].err.name = "InternalOAuthError"
      /\ doneCalls[i][1].err.oauthError = resp[i][1].err
      /\ gets[i] = <<Request(UidUrl, TokenOf(i))>>

C1_Witness ==
  \E i \in Invocations : Len(resp[i]) = 1 /\ Failed(resp[i][1]) /\ pc[i] = "returned"

\* C2: when the UID GET succeeds with a body that is no JSON, no exception
\* escapes the callback and done is called with an error.
C2_MalformedUidReported ==
  \A i \in Invocations :
    (Len(resp[i]) >= 1 /\ ~Failed(resp[i][1]) /\ ~JSON_parse(resp[i][1].body).ok) =>
      /\ uncaught[i] = Undefined
      /\ ErrorCalls(i) # {}

\* the profile the documented renames give for a user-show and an email document
Renamed(show, email) ==
  [provider |-> Str("weibo"),
   id |-> Field(show, "id"),
   username |-> Field(show, "name"),
   displayName |-> Field(show, "screen_name"),
   name |-> EmptyObject,
   gender |-> Field(show, "gender"),
   profileUrl |-> Str("http://weibo.com/" \o ToStr(Field(show, "profile_url"))),
   emails |-> Arr(<<Obj([value |-> Field(email, "email")])>>),
   photos |-> Arr(<<Obj([value |-> Field(show, "profile_image_url")])>>)]

\* done's first call is (null, profile) with the renamed fields of the
\* invocation's user-show and email documents
YieldsRenamedProfile(i) ==
  /\ Len(doneCalls[i]) >= 1
  /\ doneCalls[i][1].err = Null
  /\ doneCalls[i][1].profile.t = "object"
  /\ LET p == doneCalls[i][1].profile.o
         want == Renamed(Parsed(resp[i][2]), Parsed(resp[i][3]))
     IN \A f \in DOMAIN want : f \in DOMAIN p /\ p[f] = want[f]

\* C3 as stated: whenever the responses so far are all well-formed JSON without
\* error, no exception of the callbacks escapes, and with all three received
\* done is called with no error and the renamed profile.
C3_WellFormedYieldsProfile ==
  \A i \in Invocations :
    (\A k \in 1..Len(resp[i]) : WellFormed(resp[i][k])) =>
      /\ uncaught[i] \in {Undefined, DoneThrown}
      /\ Len(resp[i]) = 3 => YieldsRenamedProfile(i)

\* C3 amended: the same for responses that are well-formed JSON other than the
\* literal null.
C3_NonNullYieldsProfile ==
  \A i \in Invocations :
    (\A k \in 1..Len(resp[i]) : WellFormedNonNull(resp[i][k])) =>
      /\ uncaught[i] \in {Undefined, DoneThrown}
      /\ Len(resp[i]) = 3 => YieldsRenamedProfile(i)

C3_Witness ==
  \E i \in Invocations :
    /\ Len(resp[i]) = 3
    /\ \A k \in 1..3 : WellFormedNonNull(resp[i][k])
    /\ ProfileCalls(i) # {}
    /\ Field(Parsed(resp[i][2]), "gender") = Undefined

\* C4: when any GET of an invocation reports an error, done is never called with
\* a profile, and once the invocation's callbacks have run done has been called
\* with an error.
C4_TransportErrorsSurfaced ==
  \A i \in Invocations :
    (\E k \in 1..Len(resp[i]) : Failed(resp[i][k])) =>
      /\ ProfileCalls(i) = {}
      /\ Finished(i) => ErrorCalls(i) # {}

\* C5: every GET after the first is issued only once the GETs before it have
\* called back; the user-show GET carries the uid parsed from the UID response;
\* done gets a profile only when all three GETs have called back.
C5_FetchOrder ==
  \A i \in Invocations :
    /\ Len(gets[i]) <= Len(resp[i]) + 1
    /\ Len(gets[i]) >= 2 =>
         /\ WellFormed(resp[i][1])
         /\ gets[i][2].url =
              Str("https://api.weibo.com/2/users/show.json?uid=" \o
                    ToStr(Field(Parsed(resp[i][1]), "uid")))
    /\ Len(gets[i]) >= 3 => gets[i][3].url = EmailUrl
    /\ ProfileCalls(i) # {} => Len(resp[i]) = 3 /\ Len(gets[i]) = 3

C5_Witness ==
  \E i \in Invocations :
    /\ ProfileCalls(i) # {}
    /\ gets[i][2].url = Str("https://api.weibo.com/2/users/show.json?uid=456")

HasOption(options, k) == options.t = "object" /\ k \in DOMAIN options.o

DefaultOf(k) ==
  CASE k = "authorizationURL" -> DefaultAuthorizationURL
    [] k = "tokenURL" -> DefaultTokenURL
    [] k = "scopeSeparator" -> DefaultScopeSeparator

\* C6 as stated: a supplied option (the empty string included) is kept verbatim,
\* an absent one gets its default.
C6_SuppliedVerbatim ==
  strategy # Unconstructed =>
    \A k \in OptionKeys :
      strategy.options.o[k] =
        IF HasOption(supplied, k) THEN supplied.o[k] ELSE DefaultOf(k)

\* C6 amended: a supplied non-empty string is kept verbatim; an absent option
\* and a supplied empty string get the default.
C6_NonEmptyVerbatim ==
  strategy # Unconstructed =>
    /\ strategy.name = "weibo"
    /\ \A k \in OptionKeys :
         strategy.options.o[k] =
           IF HasOption(supplied, k) /\ supplied.o[k] # Str("")
           THEN supplied.o[k] ELSE DefaultOf(k)
    /\ \A k \in DOMAIN strategy.options.o \ OptionKeys :
         HasOption(supplied, k) /\ strategy.options.o[k] = supplied.o[k]

C6_Witness ==
  /\ strategy # Unconstructed
  /\ HasOption(supplied, "authorizationURL") /\ supplied.o["authorizationURL"] = Str("")
  /\ HasOption(supplied, "scopeSeparator") /\ supplied.o["scopeSeparator"] = Str(" ")
  /\ ~HasOption(supplied, "tokenURL")

\* the raw response bodies a profile holds in its fields
Retained(profile) == {profile.o[f] : f \in DOMAIN profile.o}

\* C7 as stated: a profile handed to done holds both the user-show body and the
\* email body, as the GETs returned them.
C7_BothBodiesRetained ==
  \A i \in Invocations : \A k \in ProfileCalls(i) :
    /\ resp[i][2].body \in Retained(doneCalls[i][k].profile)
    /\ resp[i][3].body \in Retained(doneCalls[i][k].profile)

\* C7 amended: a profile handed to done holds the user-show body verbatim as
\* _raw and its parsed document as _json; the email body is not held, only the
\* email value parsed from it.
C7_ShowBodyRetained ==
  \A i \in Invocations : \A k \in ProfileCalls(i) :
    LET p == doneCalls[i][k].profile IN
      /\ p.o["_raw"] = resp[i][2].body
      /\ p.o["_json"] = Parsed(resp[i][2])
      /\ resp[i][3].body \notin Retained(p)
      /\ p.o["emails"].items[1].o["value"] = Field(Parsed(resp[i][3]), "email")

C7_Witness ==
  \E i \in Invocations :
    /\ pc[i] = "returned"
    /\ ProfileCalls(i) = {1}
    /\ Len(doneCalls[i]) = 1

\* C8: every invocation whose GETs all call back eventually calls done.
C8_EventuallyDone ==
  \A i \in Invocations : (pc[i] = "get_uid") ~> (Len(doneCalls[i]) >= 1)

\* C9: done is called at most once per invocation.
C9_DoneAtMostOnce ==
  \A i \in Invocations : Len(doneCalls[i]) <= 1

\* C10: with invocations interleaved on one strategy, every GET carries the
\* invocation's own token, every profile handed to done is the one assembled
\* from the invocation's own user-show and email responses, and the strategy's
\* configuration stays what construction made it.
C10_Isolation ==
  /\ strategy = NewStrategy(supplied)
  /\ \A i \in Invocations :
       /\ \A k \in 1..Len(gets[i]) : gets[i][k].accessToken = TokenOf(i)
       /\ \A k \in ProfileCalls(i) :
            LET p == doneCalls[i][k].profile
                show == Parsed(resp[i][2])
            IN /\ Len(resp[i]) = 3
               /\ p.o["_raw"] = resp[i][2].body
               /\ p.o["_json"] = show
               /\ p.o["id"] = Field(show, "id")
               /\ p.o["username"] = Field(show, "name")
               /\ p.o["emails"].items[1].o["value"] = Field(Parsed(resp[i][3]), "email")

\* two invocations on the same strategy, each given its own user and email; the
\* state is the same whichever way their callbacks interleaved
C10_Witness ==
  \E i, j \in Invocations :
    /\ i # j
    /\ ProfileCalls(i) # {} /\ ProfileCalls(j) # {}
    /\ resp[i][2].body # resp[j][2].body
    /\ resp[i][3].body # resp[j][3].body
    /\ Parsed(resp[i][2]) # Null /\ Parsed(resp[j][2]) # Null

====
